---- MODULE Spec2Model ----
(***************************************************************************)
(* A model of tenfem's triangle reference element, the MeshProvider layer  *)
(* and the head of the local convection-matrix assembler.                  *)
(*                                                                         *)
(* Floating-point tensors are modelled by exact rationals <<n, d>> in      *)
(* lowest terms with d > 0.  The IEEE results of a division by zero are    *)
(* the pairs with d = 0: <<1, 0>> is +Inf, <<-1, 0>> is -Inf and <<0, 0>>  *)
(* is NaN.  Rounding is not modelled.                                      *)
(*                                                                         *)
(* Calls are synchronous: ret holds the value of the call in progress and  *)
(* Return hands it to the caller.  The calls that read the element nodes   *)
(* are made with a mesh whose connectivity width is the element's          *)
(* element_dim, the shape the methods document; MeshProvider is the one    *)
(* place where the two are compared.                                       *)
(***************************************************************************)
EXTENDS Integers, Sequences, FiniteSets, TLC

VARIABLES elem, mesh, provider, ret

vars == <<elem, mesh, provider, ret>>

----------------------------------------------------------------------------
(* Bounds of the model *)

\* node coordinates of the triangles' vertices range over 0..GridMax
GridMax == 2

\* largest rank of a coefficient field's batch shape
MaxBatchRank == 3

----------------------------------------------------------------------------
(* Rational arithmetic standing for float arithmetic *)

Abs(a) == IF a < 0 THEN -a ELSE a

Sign(a) == IF a < 0 THEN -1 ELSE IF a = 0 THEN 0 ELSE 1

RECURSIVE GCD(_, _)
GCD(a, b) == IF b = 0 THEN a ELSE GCD(b, a % b)

Norm(n, d) ==
    IF d = 0 THEN <<Sign(n), 0>>
    ELSE LET g == GCD(Abs(n), Abs(d))
         IN  <<Sign(d) * (n \div g), Abs(d) \div g>>

R(a) == <<a, 1>>

RAdd(p, q) == Norm(p[1] * q[2] + q[1] * p[2], p[2] * q[2])

RSub(p, q) == Norm(p[1] * q[2] - q[1] * p[2], p[2] * q[2])

RMul(p, q) == Norm(p[1] * q[1], p[2] * q[2])

\* IEEE division: x / 0 is +-Inf for x # 0 and NaN for x = 0
RDiv(p, q) == Norm(p[1] * q[2], p[2] * q[1])

RNeg(p) == <<-p[1], p[2]>>

IsFinite(p) == p[2] # 0

RECURSIVE RSumTo(_, _)
RSumTo(s, k) == IF k = 0 THEN R(0) ELSE RAdd(RSumTo(s, k - 1), s[k])

\* tf.reduce_sum over the axis a sequence models
RSum(s) == RSumTo(s, Len(s))

\* the tensor axis <<F(1), ..., F(n)>>
RECURSIVE Tabulate(_, _)
Tabulate(F(_), n) == IF n = 0 THEN <<>> ELSE Append(Tabulate(F, n - 1), F(n))

----------------------------------------------------------------------------
(* Shape functions on the canonical triangle (0,0),(1,0),(0,1) *)

\* P1: values 1-r-s, r, s
P1Vals(r, s) == <<RSub(RSub(R(1), r), s), r, s>>

\* P1: the constant gradients (-1,-1), (1,0), (0,1), as d/dr and d/ds rows
P1Grad(r, s) == << <<R(-1), R(1), R(0)>>, <<R(-1), R(0), R(1)>> >>

\* P2: the quadratic Lagrange basis on the vertices (0,0),(1,0),(0,1) and
\* the edge midpoints (1/2,0),(1/2,1/2),(0,1/2), in this order
P2Vals(r, s) ==
    LET t == RSub(RSub(R(1), r), s)
    IN  << RMul(t, RSub(RMul(R(2), t), R(1))),
           RMul(r, RSub(RMul(R(2), r), R(1))),
           RMul(s, RSub(RMul(R(2), s), R(1))),
           RMul(R(4), RMul(r, t)),
           RMul(R(4), RMul(r, s)),
           RMul(R(4), RMul(s, t)) >>

\* P2: gradients, affine in (r, s)
P2Grad(r, s) ==
    LET t  == RSub(RSub(R(1), r), s)
        dt == RSub(R(1), RMul(R(4), t))
    IN  << << dt,
              RSub(RMul(R(4), r), R(1)),
              R(0),
              RMul(R(4), RSub(t, r)),
              RMul(R(4), s),
              RNeg(RMul(R(4), s)) >>,
           << dt,
              R(0),
              RSub(RMul(R(4), s), R(1)),
              RNeg(RMul(R(4), r)),
              RMul(R(4), r),
              RMul(R(4), RSub(t, s)) >> >>

\* self.shape_function(r, s) on a batch of canonical coordinates:
\* vals[q][i] and grad[c][q][i]
ShapeFunction(degree, coords) ==
    LET n == Len(coords)
        g == Tabulate(LAMBDA q : IF degree = 1
                                 THEN P1Grad(coords[q][1], coords[q][2])
                                 ELSE P2Grad(coords[q][1], coords[q][2]), n)
    IN  [vals |-> Tabulate(LAMBDA q : IF degree = 1
                                      THEN P1Vals(coords[q][1], coords[q][2])
                                      ELSE P2Vals(coords[q][1], coords[q][2]), n),
         grad |-> << Tabulate(LAMBDA q : g[q][1], n),
                     Tabulate(LAMBDA q : g[q][2], n) >>]

----------------------------------------------------------------------------
(* Gaussian quadrature on the canonical triangle *)

\* gauss_quad_nodes_and_weights(order): positive weights summing to one,
\* as many nodes as weights
GaussQuadNodesAndWeights(order) ==
    IF order = 2
    THEN [weights |-> << <<1, 3>>, <<1, 3>>, <<1, 3>> >>,
          nodes   |-> << << <<1, 6>>, <<1, 6>> >>,
                         << <<2, 3>>, <<1, 6>> >>,
                         << <<1, 6>>, <<2, 3>> >> >>]
    ELSE [weights |-> << <<1, 6>>, <<1, 6>>, <<1, 6>>,
                         <<1, 6>>, <<1, 6>>, <<1, 6>> >>,
          nodes   |-> << << <<1, 6>>, <<1, 6>> >>,
                         << <<2, 3>>, <<1, 6>> >>,
                         << <<1, 6>>, <<2, 3>> >>,
                         << <<1, 2>>, <<0, 1>> >>,
                         << <<1, 2>>, <<1, 2>> >>,
                         << <<0, 1>>, <<1, 2>> >> >>]

----------------------------------------------------------------------------
(* Meshes *)

Grid == (0..GridMax) \X (0..GridMax)

PAdd(a, b) == <<a[1] + b[1], a[2] + b[2]>>

\* A mesh of linear triangles: one triangle listed in both orientations.
P1Mesh(a, b, c) ==
    [nodes    |-> <<a, b, c>>,
     elements |-> << <<0, 1, 2>>, <<0, 2, 1>> >>]

\* A mesh of quadratic triangles in the P2 node ordering: three vertices,
\* then the nodes of the edges v0v1, v1v2, v2v0.  bend moves the node of
\* edge v0v1 off the edge's midpoint (a curved element).
P2Mesh(a, b, c, bend) ==
    [nodes    |-> <<PAdd(a, a), PAdd(b, b), PAdd(c, c),
                    PAdd(PAdd(a, b), bend), PAdd(b, c), PAdd(c, a)>>,
     elements |-> << <<0, 1, 2, 3, 4, 5>>, <<0, 2, 1, 5, 4, 3>> >>]

Bends == {<<0, 0>>, <<1, 1>>}

\* where the first vertex of a linear triangle is put
Anchors == {<<0, 0>>, <<1, 2>>}

\* the second and third vertex of a quadratic triangle, before doubling
UnitGrid == (0..1) \X (0..1)

Meshes ==
    {P1Mesh(a, PAdd(a, b), PAdd(a, c)) : a \in Anchors, b \in Grid, c \in Grid}
    \cup {P2Mesh(<<0, 0>>, b, c, bend) : b \in UnitGrid, c \in UnitGrid, bend \in Bends}

n_nodes(m) == Len(m.nodes)

n_elements(m) == Len(m.elements)

\* tf.shape(mesh.elements)[-1]
ElementsWidth(m) == Len(m.elements[1])

\* tf.gather(mesh.nodes, mesh.elements): node ids are zero-based
Gather(nodes, elements) ==
    Tabulate(LAMBDA e :
        Tabulate(LAMBDA k : nodes[elements[e][k] + 1], Len(elements[e])),
        Len(elements))

----------------------------------------------------------------------------
(* TriangleElement *)

Degrees == 0..3

DTypes == {"float32", "float64"}

\* TriangleElement.__init__ with the quadratic branch copied from the linear
\* one and its quadrature order left at 2
TriangleElementInitCopiedOrder(degree, dtype) ==
    IF degree = 1
    THEN [state |-> "ok", degree |-> degree, dtype |-> dtype,
          quadrature_order |-> 2, element_dim |-> 3]
    ELSE IF degree = 2
    THEN [state |-> "ok", degree |-> degree, dtype |-> dtype,
          quadrature_order |-> 2, element_dim |-> 6]
    ELSE [state |-> "failed", degree |-> degree, dtype |-> dtype,
          error |-> "NotImplementedError"]

\* TriangleElement.__init__: the attributes the constructor has set when it
\* returns (state "ok") or raises (state "failed")
TriangleElementInit(degree, dtype) ==
    IF degree = 1
    THEN [state |-> "ok", degree |-> degree, dtype |-> dtype,
          quadrature_order |-> 2, element_dim |-> 3]
    ELSE IF degree = 2
    THEN [state |-> "ok", degree |-> degree, dtype |-> dtype,
          quadrature_order |-> 4, element_dim |-> 6]
    ELSE [state |-> "failed", degree |-> degree, dtype |-> dtype,
          error |-> "NotImplementedError"]

\* j11, j12, j21, j22 at canonical coordinate q of the element with nodes en
Jacobian(grad, q, en) ==
    LET dim == Len(en)
        gr  == grad[1][q]
        gs  == grad[2][q]
    IN  << RSum([k \in 1..dim |-> RMul(gr[k], R(en[k][1]))]),
           RSum([k \in 1..dim |-> RMul(gr[k], R(en[k][2]))]),
           RSum([k \in 1..dim |-> RMul(gs[k], R(en[k][1]))]),
           RSum([k \in 1..dim |-> RMul(gs[k], R(en[k][2]))]) >>

\* jacobian_det = j11 * j22 - j12 * j21
JacobianDet(j) == RSub(RMul(j[1], j[4]), RMul(j[2], j[3]))

\* dSdx with the factor dS/ds of the second term left out
DSdxLostFactor(j, gr, gs, jacobian_det) ==
    RDiv(RSub(RMul(j[4], gr), j[2]), jacobian_det)

\* dSdx = (j22 * dS/dr - j12 * dS/ds) / jacobian_det
DSdx(j, gr, gs, jacobian_det) ==
    RDiv(RSub(RMul(j[4], gr), RMul(j[2], gs)), jacobian_det)

\* dSdy with the two canonical gradients exchanged
DSdySwappedGrads(j, gr, gs, jacobian_det) ==
    RDiv(RAdd(RMul(RNeg(j[3]), gs), RMul(j[1], gr)), jacobian_det)

\* dSdy = (-j21 * dS/dr + j11 * dS/ds) / jacobian_det
DSdy(j, gr, gs, jacobian_det) ==
    RDiv(RAdd(RMul(RNeg(j[3]), gr), RMul(j[1], gs)), jacobian_det)

\* TriangleElement.isomap: shape_fn_vals[q][i],
\* pushfwd_shape_fn_grad[c][e][q][i] and jacobian_det[e][q]
Isomap(degree, nodes, canonical_coordinates) ==
    LET sf  == ShapeFunction(degree, canonical_coordinates)
        E   == Len(nodes)
        n   == Len(canonical_coordinates)
        dim == Len(sf.vals[1])
        gr  == sf.grad[1]
        gs  == sf.grad[2]
        J   == Tabulate(LAMBDA e :
                   Tabulate(LAMBDA q : Jacobian(sf.grad, q, nodes[e]), n), E)
        det == Tabulate(LAMBDA e :
                   Tabulate(LAMBDA q : JacobianDet(J[e][q]), n), E)
    IN  [shape_fn_vals |-> sf.vals,
         pushfwd_shape_fn_grad |->
            << Tabulate(LAMBDA e : Tabulate(LAMBDA q : Tabulate(LAMBDA i :
                    DSdx(J[e][q], gr[q][i], gs[q][i], det[e][q]), dim), n), E),
               Tabulate(LAMBDA e : Tabulate(LAMBDA q : Tabulate(LAMBDA i :
                    DSdy(J[e][q], gr[q][i], gs[q][i], det[e][q]), dim), n), E) >>,
         jacobian_det |-> det]

\* TriangleElement.get_quadrature_nodes: the physical quadrature nodes [e][q]
GetQuadratureNodes(el, m) ==
    LET quad == GaussQuadNodesAndWeights(el.quadrature_order).nodes
        sf   == ShapeFunction(el.degree, quad)
        en   == Gather(m.nodes, m.elements)
        v    == sf.vals
    IN  Tabulate(LAMBDA e : Tabulate(LAMBDA q :
            << RSum([k \in 1..Len(en[e]) |-> RMul(R(en[e][k][1]), v[q][k])]),
               RSum([k \in 1..Len(en[e]) |-> RMul(R(en[e][k][2]), v[q][k])]) >>,
            Len(quad)), Len(en))

\* orientate_element_indices interleaving the edge nodes in their own order
OrientateElementIndicesInOrder(element_dim, elements) ==
    IF element_dim = 3
    THEN elements
    ELSE IF element_dim = 6
    THEN Tabulate(LAMBDA e :
            <<elements[e][1], elements[e][4], elements[e][2],
              elements[e][5], elements[e][3], elements[e][6]>>, Len(elements))
    ELSE "NotImplementedError"

\* TriangleElement.orientate_element_indices: the returned tensor
OrientateElementIndices(element_dim, elements) ==
    IF element_dim = 3
    THEN elements
    ELSE IF element_dim = 6
    THEN Tabulate(LAMBDA e :
            <<elements[e][1], elements[e][6], elements[e][2],
              elements[e][4], elements[e][3], elements[e][5]>>, Len(elements))
    ELSE "NotImplementedError"

\* assemble_local_convection_matrix: wxarea[e][q] = jac_det * wts / 2
WxArea(jac_det, wts) ==
    Tabulate(LAMBDA e : Tabulate(LAMBDA q :
        RDiv(RMul(jac_det[e][q], wts[q]), R(2)), Len(wts)), Len(jac_det))

\* the canonical coordinates isomap is called with: the element's quadrature
\* nodes, or the vertices of the canonical triangle and its centroid
CoordBatches(order) ==
    { GaussQuadNodesAndWeights(order).nodes,
      << <<R(0), R(0)>>, <<R(1), R(0)>>, <<R(0), R(1)>>, << <<1, 3>>, <<1, 3>> >> >> }

----------------------------------------------------------------------------
(* MeshProvider *)

\* padding_element=-1
DefaultPaddingElement == -1

\* MeshProvider._build_precond_matrix: the stiffness matrix assembled with
\* unit diffusion on the provider's mesh, kept as its shape
BuildPrecondMatrix(reference_element, m) ==
    [assembled_with |-> reference_element.degree,
     shape |-> <<n_nodes(m), n_nodes(m)>>]

\* MeshProvider.__init__ checking the shape after the attributes are set and
\* the preconditioner is built
MeshProviderInitLateCheck(m, reference_element, padding_element, return_precond_matrix) ==
    LET self == [state |-> IF ElementsWidth(m) # reference_element.element_dim
                           THEN "failed" ELSE "ok",
                 reference_element |-> reference_element,
                 mesh |-> m,
                 padding_element |-> padding_element,
                 n_nodes |-> n_nodes(m),
                 n_elements |-> n_elements(m),
                 return_precond_matrix |-> return_precond_matrix]
        built == IF return_precond_matrix
                 THEN [a \in DOMAIN self \cup {"precond_matrix"} |->
                          IF a = "precond_matrix"
                          THEN BuildPrecondMatrix(self.reference_element, self.mesh)
                          ELSE self[a]]
                 ELSE self
    IN  IF self.state = "failed"
        THEN [a \in DOMAIN built \cup {"error"} |->
                 IF a = "error" THEN "ValueError" ELSE built[a]]
        ELSE built

\* MeshProvider.__init__: the attributes the constructor has set when it
\* returns (state "ok") or raises (state "failed")
MeshProviderInit(m, reference_element, padding_element, return_precond_matrix) ==
    IF ElementsWidth(m) # reference_element.element_dim
    THEN [state |-> "failed", error |-> "ValueError",
          reference_element |-> reference_element]
    ELSE LET self == [state |-> "ok",
                      reference_element |-> reference_element,
                      mesh |-> m,
                      padding_element |-> padding_element,
                      n_nodes |-> n_nodes(m),
                      n_elements |-> n_elements(m),
                      return_precond_matrix |-> return_precond_matrix]
         IN  IF return_precond_matrix
             THEN [a \in DOMAIN self \cup {"precond_matrix"} |->
                      IF a = "precond_matrix"
                      THEN BuildPrecondMatrix(self.reference_element, self.mesh)
                      ELSE self[a]]
             ELSE self

\* MeshProvider.call: the mesh, with the preconditioner when it was asked for
MeshProviderCall(self) ==
    IF self.return_precond_matrix
    THEN <<self.mesh, self.precond_matrix>>
    ELSE <<self.mesh>>

----------------------------------------------------------------------------
(* Shapes of the local stiffness matrix and of the local load vector *)

BatchDims == {1, 3, 4}

RECURSIVE SeqsUpTo(_, _)
SeqsUpTo(S, n) ==
    IF n = 0 THEN {<<>>}
    ELSE LET shorter == SeqsUpTo(S, n - 1)
         IN  shorter \cup {Append(b, d) : b \in shorter, d \in S}

BatchShapes == SeqsUpTo(BatchDims, MaxBatchRank)

Max(a, b) == IF a > b THEN a ELSE b

\* the shape two tensors broadcast to: trailing axes are aligned, an axis
\* of size one stretches, a missing leading axis is taken from the other
Broadcast(s, t) ==
    LET n == Max(Len(s), Len(t))
        a(k) == IF k > n - Len(s) THEN s[k - (n - Len(s))] ELSE 1
        b(k) == IF k > n - Len(t) THEN t[k - (n - Len(t))] ELSE 1
    IN  IF \A k \in 1..n : a(k) = b(k) \/ a(k) = 1 \/ b(k) = 1
        THEN Tabulate(LAMBDA k : Max(a(k), b(k)), n)
        ELSE "InvalidArgumentError"

\* tf.reduce_sum(x, axis=-back): the axis is removed
ReduceSum(s, back) ==
    LET k == Len(s) - back + 1
    IN  SubSeq(s, 1, k - 1) \o SubSeq(s, k + 1, Len(s))

\* x[..., tf.newaxis] * back times from the end: an axis of size one is
\* inserted so that back axes follow it
NewAxis(s, back) ==
    SubSeq(s, 1, Len(s) - back) \o <<1>> \o SubSeq(s, Len(s) - back + 1, Len(s))

IsNotOne(d) == d # 1

\* the interpolated field with its axes of size one squeezed out
InterpolateShapeSqueezed(field, n_quad, element_dim) ==
    SelectSeq(ReduceSum(Broadcast(NewAxis(field, 1), <<n_quad, element_dim>>), 1),
              IsNotOne)

\* a field given at the element nodes, [..., n_elements, element_dim],
\* interpolated to the quadrature nodes with the shape values: [..., n_elements, n_quad]
InterpolateShape(field, n_quad, element_dim) ==
    ReduceSum(Broadcast(NewAxis(field, 1), <<n_quad, element_dim>>), 1)

\* K_ij = sum_q w_q kappa_q (grad S_i . grad S_j)
LocalStiffnessMatrixShape(diff_coeff, E, n_quad, element_dim) ==
    LET kappa  == InterpolateShape(diff_coeff, n_quad, element_dim)
        wxarea == <<E, n_quad>>
        gradgrad == <<E, n_quad, element_dim, element_dim>>
        wk     == Broadcast(wxarea, kappa)
    IN  ReduceSum(Broadcast(NewAxis(NewAxis(wk, 0), 0), gradgrad), 3)

\* f_i = sum_q w_q g_q S_i(q)
LocalLoadVectorShape(source, E, n_quad, element_dim) ==
    LET g      == InterpolateShape(source, n_quad, element_dim)
        wxarea == <<E, n_quad>>
        wg     == Broadcast(wxarea, g)
    IN  ReduceSum(Broadcast(NewAxis(wg, 0), <<n_quad, element_dim>>), 2)

----------------------------------------------------------------------------
(* State machine *)

NoElement == [state |-> "none"]

NoProvider == [state |-> "none"]

NoReturn == [op |-> "none"]

Init ==
    /\ elem = NoElement
    /\ mesh \in Meshes
    /\ provider = NoProvider
    /\ ret = NoReturn

\* TriangleElement(degree, dtype)
Construct ==
    /\ elem.state = "none"
    /\ \E degree \in Degrees, dtype \in DTypes :
          elem' = TriangleElementInit(degree, dtype)
    /\ UNCHANGED <<mesh, provider, ret>>

\* element.get_quadrature_nodes_and_weights()
GetQuadratureNodesAndWeightsCall ==
    /\ elem.state = "ok"
    /\ ret = NoReturn
    /\ ret' = [op |-> "get_quadrature_nodes_and_weights",
               value |-> GaussQuadNodesAndWeights(elem.quadrature_order)]
    /\ UNCHANGED <<elem, mesh, provider>>

\* element.get_quadrature_nodes(mesh)
GetQuadratureNodesCall ==
    /\ elem.state = "ok"
    /\ ret = NoReturn
    /\ ElementsWidth(mesh) = elem.element_dim
    /\ ret' = [op |-> "get_quadrature_nodes",
               value |-> GetQuadratureNodes(elem, mesh)]
    /\ UNCHANGED <<elem, mesh, provider>>

\* element.isomap(tf.gather(mesh.nodes, mesh.elements), canonical_coordinates)
IsomapCall ==
    /\ elem.state = "ok"
    /\ ret = NoReturn
    /\ ElementsWidth(mesh) = elem.element_dim
    /\ \E cc \in CoordBatches(elem.quadrature_order) :
          ret' = [op |-> "isomap",
                  canonical_coordinates |-> cc,
                  value |-> Isomap(elem.degree,
                                   Gather(mesh.nodes, mesh.elements), cc)]
    /\ UNCHANGED <<elem, mesh, provider>>

\* orientate_element_indices reordering mesh.elements in place
OrientateElementIndicesInPlace ==
    /\ elem.state = "ok"
    /\ ret = NoReturn
    /\ ElementsWidth(mesh) >= elem.element_dim
    /\ mesh' = [mesh EXCEPT !.elements =
                   OrientateElementIndices(elem.element_dim, mesh.elements)]
    /\ ret' = [op |-> "orientate_element_indices", value |-> mesh'.elements]
    /\ UNCHANGED <<elem, provider>>

\* element.orientate_element_indices(mesh); the quadratic branch reads
\* columns 0..5 of mesh.elements
OrientateElementIndicesCall ==
    /\ elem.state = "ok"
    /\ ret = NoReturn
    /\ ElementsWidth(mesh) >= elem.element_dim
    /\ ret' = [op |-> "orientate_element_indices",
               value |-> OrientateElementIndices(elem.element_dim, mesh.elements)]
    /\ UNCHANGED <<elem, mesh, provider>>

\* assemble_local_convection_matrix(transport_vector_field, mesh, element),
\* up to the combined quadrature weight
AssembleLocalConvectionMatrix ==
    /\ elem.state = "ok"
    /\ ret = NoReturn
    /\ ElementsWidth(mesh) = elem.element_dim
    /\ LET quad == GaussQuadNodesAndWeights(elem.quadrature_order)
           iso  == Isomap(elem.degree, Gather(mesh.nodes, mesh.elements), quad.nodes)
       IN  ret' = [op |-> "assemble_local_convection_matrix",
                   wts |-> quad.weights,
                   jac_det |-> iso.jacobian_det,
                   wxarea |-> WxArea(iso.jacobian_det, quad.weights)]
    /\ UNCHANGED <<elem, mesh, provider>>

\* MeshProvider(mesh, reference_element, return_precond_matrix=...)
MeshProviderConstruct ==
    /\ elem.state = "ok"
    /\ provider.state = "none"
    /\ ret = NoReturn
    /\ \E return_precond_matrix \in BOOLEAN :
          provider' = MeshProviderInit(mesh, elem, DefaultPaddingElement,
                                       return_precond_matrix)
    /\ UNCHANGED <<elem, mesh, ret>>

\* provider(inputs)
MeshProviderCallCall ==
    /\ provider.state = "ok"
    /\ ret = NoReturn
    /\ ret' = [op |-> "call", value |-> MeshProviderCall(provider)]
    /\ UNCHANGED <<elem, mesh, provider>>

\* assemble_local_stiffness_matrix(diff_coeff, mesh, element) with
\* diff_coeff of shape batch_shape + [n_elements, element_dim]
AssembleLocalStiffnessMatrix ==
    /\ elem.state = "ok"
    /\ ret = NoReturn
    /\ ElementsWidth(mesh) = elem.element_dim
    /\ \E batch_shape \in BatchShapes :
          ret' = [op |-> "assemble_local_stiffness_matrix",
                  batch_shape |-> batch_shape,
                  shape |-> LocalStiffnessMatrixShape(
                      batch_shape \o <<n_elements(mesh), elem.element_dim>>,
                      n_elements(mesh),
                      Len(GaussQuadNodesAndWeights(elem.quadrature_order).weights),
                      elem.element_dim)]
    /\ UNCHANGED <<elem, mesh, provider>>

\* assemble_local_load_vector(source, mesh, element) with source of shape
\* batch_shape + [n_elements, element_dim]
AssembleLocalLoadVector ==
    /\ elem.state = "ok"
    /\ ret = NoReturn
    /\ ElementsWidth(mesh) = elem.element_dim
    /\ \E batch_shape \in BatchShapes :
          ret' = [op |-> "assemble_local_load_vector",
                  batch_shape |-> batch_shape,
                  shape |-> LocalLoadVectorShape(
                      batch_shape \o <<n_elements(mesh), elem.element_dim>>,
                      n_elements(mesh),
                      Len(GaussQuadNodesAndWeights(elem.quadrature_order).weights),
                      elem.element_dim)]
    /\ UNCHANGED <<elem, mesh, provider>>

\* the caller takes the value the last call returned
Return ==
    /\ ret # NoReturn
    /\ ret' = NoReturn
    /\ UNCHANGED <<elem, mesh, provider>>

Next ==
    \/ Construct
    \/ Return
    \/ GetQuadratureNodesAndWeightsCall
    \/ GetQuadratureNodesCall
    \/ IsomapCall
    \/ OrientateElementIndicesCall
    \/ AssembleLocalConvectionMatrix
    \/ MeshProviderConstruct
    \/ MeshProviderCallCall

Spec == Init /\ [][Next]_vars

\* The assemblers of the local stiffness matrix and load vector, on the
\* meshes of the canonical triangle.
InitAssemble ==
    /\ elem = NoElement
    /\ mesh \in {P1Mesh(<<0, 0>>, <<1, 0>>, <<0, 1>>),
                 P2Mesh(<<0, 0>>, <<1, 0>>, <<0, 1>>, <<0, 0>>)}
    /\ provider = NoProvider
    /\ ret = NoReturn

NextAssemble ==
    \/ Construct
    \/ AssembleLocalStiffnessMatrix
    \/ AssembleLocalLoadVector
    \/ Return

SpecAssemble == InitAssemble /\ [][NextAssemble]_vars

----------------------------------------------------------------------------
(* Properties *)

CanonicalP1 == << <<0, 0>>, <<1, 0>>, <<0, 1>> >>

ElementNodes == Gather(mesh.nodes, mesh.elements)

Zero == R(0)

One == R(1)

\* C1: a constructed element has degree 1, element_dim 3 and quadrature
\* order 2, or degree 2, element_dim 6 and quadrature order 4; with any
\* other degree the construction fails with an error and no element
\* (no element_dim, no quadrature order) is produced.
C1_ConstructionByDegree ==
    elem.state # "none" =>
        /\ elem.degree = 1 =>
              /\ elem.state = "ok"
              /\ elem.element_dim = 3
              /\ elem.quadrature_order = 2
        /\ elem.degree = 2 =>
              /\ elem.state = "ok"
              /\ elem.element_dim = 6
              /\ elem.quadrature_order = 4
        /\ elem.degree \notin {1, 2} =>
              /\ elem.state = "failed"
              /\ elem.error = "NotImplementedError"
              /\ DOMAIN elem \cap {"element_dim", "quadrature_order"} = {}

C1_Witness == elem.state = "failed" /\ elem.degree = 3

\* C2: a MeshProvider constructed with a mesh whose connectivity width
\* differs from the reference element's element_dim fails with a shape
\* mismatch error; its preconditioner is not built and its mesh, n_nodes
\* and n_elements are not set.
C2_ShapeMismatchRaisedFirst ==
    (provider.state # "none"
        /\ ElementsWidth(mesh) # provider.reference_element.element_dim) =>
        /\ provider.state = "failed"
        /\ provider.error = "ValueError"
        /\ DOMAIN provider
              \cap {"precond_matrix", "mesh", "n_nodes", "n_elements"} = {}

C2_Witness ==
    /\ provider.state = "failed"
    /\ ElementsWidth(mesh) = 6
    /\ provider.reference_element.element_dim = 3

HasZeroDet(jac_det) ==
    \E e \in 1..Len(jac_det) : \E q \in 1..Len(jac_det[e]) : jac_det[e][q] = Zero

\* C3: isomap on element nodes whose Jacobian determinant is zero at some
\* canonical coordinate reports an error; it does not return gradients
\* that are quotients by the zero determinant.
C3_DegeneracyReported ==
    (ret.op = "isomap" /\ HasZeroDet(ret.value.jacobian_det)) =>
        /\ "error" \in DOMAIN ret
        /\ \A c \in 1..2 : \A e \in 1..Len(ret.value.jacobian_det) :
           \A q \in 1..Len(ret.canonical_coordinates) :
           \A i \in 1..elem.element_dim :
              IsFinite(ret.value.pushfwd_shape_fn_grad[c][e][q][i])

\* C4: orientate_element_indices returns [e0,e5,e1,e3,e2,e4] for every
\* element [e0,..,e5] of a mesh when element_dim is 6, a permutation of the
\* element's indices, and mesh.elements unchanged when element_dim is 3.
C4_OrientationPermutation ==
    ret.op = "orientate_element_indices" =>
        IF elem.element_dim = 6
        THEN /\ Len(ret.value) = Len(mesh.elements)
             /\ \A e \in 1..Len(mesh.elements) :
                   LET el == mesh.elements[e]
                   IN  /\ ret.value[e] = <<el[1], el[6], el[2], el[4], el[3], el[5]>>
                       /\ Len(ret.value[e]) = Len(el)
                       /\ \A n \in 0..(n_nodes(mesh) - 1) :
                             Cardinality({k \in 1..6 : ret.value[e][k] = n})
                                = Cardinality({k \in 1..6 : el[k] = n})
        ELSE ret.value = mesh.elements

C4_Witness ==
    /\ ret.op = "orientate_element_indices"
    /\ elem.element_dim = 6
    /\ ret.value[2] = <<0, 3, 2, 5, 1, 4>>

\* twice the point p
Twice(p) == <<2 * p[1], 2 * p[2]>>

\* the element's nodes 3, 4, 5 are the midpoints of its edges v0v1, v1v2, v2v0
InP2NodeOrdering(en) ==
    /\ Len(en) = 6
    /\ Twice(en[4]) = PAdd(en[1], en[2])
    /\ Twice(en[5]) = PAdd(en[2], en[3])
    /\ Twice(en[6]) = PAdd(en[3], en[1])

\* p lies on the segment from a to b
OnEdge(p, a, b) ==
    /\ (b[1] - a[1]) * (p[2] - a[2]) = (b[2] - a[2]) * (p[1] - a[1])
    /\ (p[1] - a[1]) * (p[1] - b[1]) + (p[2] - a[2]) * (p[2] - b[2]) <= 0

\* C5: for an element in the P2 node ordering, the sequence
\* orientate_element_indices returns is a closed path around the boundary:
\* each edge node of the output lies on the edge joining the vertices
\* before and after it.
C5_BoundaryPath ==
    (ret.op = "orientate_element_indices" /\ elem.element_dim = 6) =>
        \A e \in 1..Len(mesh.elements) :
            InP2NodeOrdering(ElementNodes[e]) =>
                LET path == [k \in 1..6 |-> mesh.nodes[ret.value[e][k] + 1]]
                IN  /\ OnEdge(path[2], path[1], path[3])
                    /\ OnEdge(path[4], path[3], path[5])
                    /\ OnEdge(path[6], path[5], path[1])

\* C6: isomap of a degree-1 element on the canonical triangle returns
\* Jacobian determinant 1 at every canonical coordinate and physical
\* gradients equal to the canonical gradients (-1,-1), (1,0), (0,1).
C6_CanonicalTriangleIsIdentity ==
    (ret.op = "isomap" /\ elem.degree = 1) =>
        \A e \in 1..Len(mesh.elements) :
            ElementNodes[e] = CanonicalP1 =>
                \A q \in 1..Len(ret.canonical_coordinates) :
                    /\ ret.value.jacobian_det[e][q] = One
                    /\ ret.value.pushfwd_shape_fn_grad[1][e][q]
                          = <<R(-1), R(1), R(0)>>
                    /\ ret.value.pushfwd_shape_fn_grad[2][e][q]
                          = <<R(-1), R(0), R(1)>>

C6_Witness ==
    /\ ret.op = "isomap"
    /\ elem.degree = 1
    /\ ElementNodes[1] = CanonicalP1
    /\ Len(ret.canonical_coordinates) = 4

\* C7: at every canonical coordinate and for every element with a non-zero
\* Jacobian determinant there, of either orientation, the shape values
\* isomap returns sum to 1 and the physical gradients sum to (0,0).
C7_ReproducesConstants ==
    ret.op = "isomap" =>
        \A e \in 1..Len(mesh.elements) :
        \A q \in 1..Len(ret.canonical_coordinates) :
            ret.value.jacobian_det[e][q] # Zero =>
                /\ RSum(ret.value.shape_fn_vals[q]) = One
                /\ RSum(ret.value.pushfwd_shape_fn_grad[1][e][q]) = Zero
                /\ RSum(ret.value.pushfwd_shape_fn_grad[2][e][q]) = Zero

C7_Witness ==
    /\ ret.op = "isomap"
    /\ elem.degree = 2
    /\ ~InP2NodeOrdering(ElementNodes[1])
    /\ ret.value.jacobian_det[1][1][1] > 0
    /\ ret.value.jacobian_det[2][1][1] < 0
    /\ ret.value.jacobian_det[1][1] # ret.value.jacobian_det[1][2]

\* C8: the local stiffness matrix and the local load vector of a
\* coefficient field of shape batch_shape + [n_elements, element_dim] have
\* the shape batch_shape, in the same order and with its size-1 axes,
\* followed by the per-element axes.
C8_BatchShapePreserved ==
    /\ ret.op = "assemble_local_stiffness_matrix" =>
          ret.shape = ret.batch_shape
                        \o <<n_elements(mesh), elem.element_dim, elem.element_dim>>
    /\ ret.op = "assemble_local_load_vector" =>
          ret.shape = ret.batch_shape \o <<n_elements(mesh), elem.element_dim>>

C8_Witness ==
    /\ ret.op = "assemble_local_stiffness_matrix"
    /\ ret.batch_shape = <<3, 1, 4>>
    /\ elem.degree = 1

\* |p| of a finite rational
RAbs(p) == <<Abs(p[1]), p[2]>>

\* C9: the combined quadrature weight of the convection assembler is
\* |det(J)| * quadrature_weight / 2 for each element and quadrature node,
\* and so is not negative for a non-degenerate element of either
\* orientation.
C9_WeightIsAbsDet ==
    ret.op = "assemble_local_convection_matrix" =>
        \A e \in 1..Len(ret.wxarea) : \A q \in 1..Len(ret.wts) :
            ret.jac_det[e][q] # Zero =>
                /\ ret.wxarea[e][q]
                      = RDiv(RMul(RAbs(ret.jac_det[e][q]), ret.wts[q]), R(2))
                /\ ret.wxarea[e][q][1] >= 0

\* C10: no call on a constructed element changes the element's degree,
\* element_dim, quadrature_order or dtype, nor the nodes and elements of
\* the mesh.
C10_ElementAndMeshUnchanged ==
    [][elem.state = "ok" => (elem' = elem /\ mesh' = mesh)]_vars

C10_Witness ==
    /\ ret.op = "orientate_element_indices"
    /\ elem.element_dim = 6
    /\ ret.value # mesh.elements
    /\ provider.state = "ok"

====
